---- MODULE Spec2Model ----
(***************************************************************************)
(* Model of the fragment scheduling and playback-state engine of diaes.js  *)
(* (src/js/lib/diaes.js, the CommonJS variant at lines 1743-2619): Source, *)
(* SourceQueue, Reader, Player and Manager.                                *)
(*                                                                         *)
(* Time is counted in units of 100 ms, the largest unit in which the       *)
(* fragment duration (15.0 s), the end-event grace period (200 ms) and the *)
(* debounce window (300 ms) are whole numbers.  The 10 ms and 100 ms       *)
(* polling intervals are shorter than or equal to one unit: a poller whose *)
(* condition holds runs before the clock advances.                         *)
(***************************************************************************)
EXTENDS Integers, Sequences, FiniteSets, Bags, TLC

\* ------------------------------------------------------------ constants
FRAGMENT_DURATION == 150
STATE_PAUSED      == 0
STATE_PLAYING     == 1
STATE_BUFFERING   == 2
STATE_FINISHED    == 3
EndGrace          == 2
DebounceWait      == 3
\* Volumes are counted in tenths: Manager.prototype.volume is 1.0 and a gain
\* node is created with the value 1.
DefaultVolume     == 10
ConstructorOffset == 120
DefaultGain       == 10

\* -------------------------------------------------------------- bounds
\* The track served by the metadata source: the decoded duration of each
\* fragment (the last one is shorter than FRAGMENT_DURATION).
Durations   == <<150, 150, 20>>
\* Volumes passed to setVolume.
Volumes     == {0, 3, 7, 10}
\* Requested seek times.
FarSeekTimes == {200, 460}
SeekTimes   == {160, 200, 400}
\* The grid of instants at which the environment acts, besides the instants
\* at which a timer fires, and the short step inside a debounce window.
TickStep    == 75
ShortStep   == 2
\* One player, one seek, into the second fragment.
MaxClock    == 230
MaxSeeks    == 1
\* One player, one seek, played through to the end of the track.
FailClock   == 230
FailSeeks   == 1
DeviceClock == 160
VariantClock == 230
VariantSeeks == 1
FarClock    == 10
FarSeeks    == 1
LongClock   == 400
LongSeeks   == 1
\* One player started within FinishClock and left to play, with no seek.
FinishClock == 300
\* One player, two seeks and a replay shortly after the start.
ReplayClock == 9
ReplaySeeks == 3
\* One player, bursts of seeks.
BurstClock  == 160
BurstSeeks  == 2
\* Two managed players, one seek and one pauseAll.
MgrClock    == 6
MgrSeeks    == 1
MaxPauseAll == 1
\* Two managed players, two seeks.
SharedClock == 6
SharedSeeks == 2
\* One managed player, two seeks and one pauseAll.
PauseClock  == 6
PauseSeeks  == 2
\* Players the manager is asked to add, with and without a third one.
DestroyAdds == 2
IdsAdds     == 3
NumPlayers  == 3

Players   == 0 .. (NumPlayers - 1)
Undefined == -1

VARIABLES
    mgr,        \* the Manager: muted, volume and the value of its gain node
    now,        \* context.currentTime
    players,    \* Manager.prototype.players, the ids of the managed players
    rd,         \* rd[p]: the Reader of player p with its SourceQueue
    deb,        \* the one timer of the debounced Reader.prototype.setCurrentTime
    waiters,    \* armed "waitingFragments" intervals, each <<player, time>>
    pollers,    \* armed pauseAll intervals
    left,       \* calls the environment may still make
    ev          \* the handler that ran last and what it emitted

vars == <<mgr, now, players, rd, deb, waiters, pollers, left, ev>>

Max0(x) == IF x > 0 THEN x ELSE 0

\* ------------------------------------------------------------ emitted events
Event(e, n) == [e |-> e, n |-> n]
Emit(w, e, n) == [w EXCEPT !.out = Append(@, Event(e, n))]
Emitted(e) == \E i \in 1 .. Len(ev.out) : ev.out[i].e = e
EmittedN(e, n) == \E i \in 1 .. Len(ev.out) : ev.out[i] = Event(e, n)

\* ------------------------------------------------------------------ Source
\* buffer: whether the buffer handed to the constructor is a decoded one.
\* Besides the fields of a Source a record keeps what the output device does
\* with its node: faulty, the device throws when the node is started, and
\* started, node.start returned normally.
NewSource(buffer, number) ==
    [buffer |-> buffer, number |-> number, startsFrom |-> 0, startsAt |-> 0,
     node |-> FALSE, timer |-> FALSE, deadline |-> 0,
     faulty |-> FALSE, started |-> FALSE]

BufferDuration(number) == Durations[number + 1]

SourceSetupMissingOffset(srcs, i, t) ==
    [srcs EXCEPT ![i].node = TRUE,
                 ![i].started = FALSE,
                 ![i].startsAt =
                     IF i > 1
                     THEN srcs[i-1].startsAt + BufferDuration(srcs[i-1].number)
                     ELSE t]

\* startsAt is null until the first setup; null counts as 0 in arithmetic.
SourceSetup(srcs, i, t) ==
    [srcs EXCEPT ![i].node = TRUE,
                 ![i].started = FALSE,
                 ![i].startsAt =
                     IF i > 1
                     THEN srcs[i-1].startsAt + BufferDuration(srcs[i-1].number)
                          - srcs[i-1].startsFrom
                     ELSE t]

SourceScheduleNoTimer(s, t) == [s EXCEPT !.timer = FALSE]

SourceScheduleUncaught(s, t) ==
    LET endsAt == s.startsAt + BufferDuration(s.number) - s.startsFrom
        endsIn == endsAt - t
    IN  IF s.faulty THEN s
        ELSE [s EXCEPT !.started = TRUE, !.timer = TRUE,
                       !.deadline = t + Max0(endsIn + EndGrace)]

\* An exception of node.start is caught and logged; the end timer is set
\* after the try block.
SourceSchedule(s, t) ==
    LET endsAt == s.startsAt + BufferDuration(s.number) - s.startsFrom
        endsIn == endsAt - t
    IN  [s EXCEPT !.started = ~s.faulty,
                  !.timer = TRUE, !.deadline = t + Max0(endsIn + EndGrace)]

SourceCancel(s) == [s EXCEPT !.timer = FALSE]

SourceElapsedSinceStart(s, t) == t - s.startsAt

SourceElapsed(s, t) == t - s.startsAt + s.startsFrom

\* ------------------------------------------------------------- SourceQueue
NoCont == [phase |-> "none", e |-> 0, T |-> 0, dur |-> 0]

NewQueueFields ==
    [state |-> STATE_PAUSED, sources |-> << >>,
     latestElapsedNull |-> FALSE, latestElapsed |-> 0]

QueueIsEmpty(r) == Len(r.sources) = 0

\* SourceQueue.push looks its duplicate up in this.queue, a property that a
\* SourceQueue does not have: the collection searched is always empty.
QueueProperty(r) == << >>

FindNumber(coll, number) == \E i \in 1 .. Len(coll) : coll[i].number = number

RECURSIVE SetupAndScheduleFrom(_, _, _)
SetupAndScheduleFrom(srcs, i, t) ==
    IF i > Len(srcs) THEN srcs
    ELSE LET a == SourceSetup(srcs, i, t)
             b == [a EXCEPT ![i] = SourceSchedule(a[i], t)]
         IN  SetupAndScheduleFrom(b, i + 1, t)

\* The lines the catch blocks of schedule log during one play().
RECURSIVE ReportCaught(_, _, _)
ReportCaught(w, srcs, i) ==
    IF i > Len(srcs) THEN w
    ELSE ReportCaught(IF srcs[i].faulty
                      THEN Emit(w, "error on schedule", srcs[i].number)
                      ELSE w,
                      srcs, i + 1)

\* The debounced wrapper: every call restarts the one shared timer and keeps
\* the last receiver and the last argument.
SetCurrentTime(w, p, time) ==
    [w EXCEPT !.deb = [pending |-> TRUE, deadline |-> w.now + DebounceWait,
                       this |-> p, time |-> time],
              !.rd[p].asked = time]

QueuePush(w, p, number, offset) ==
    LET r           == w.rd[p]
        sourceIndex == Len(r.sources) + 1
        source      == [NewSource(r.buffer[number], number) EXCEPT
                           !.startsFrom = IF offset # 0 THEN offset ELSE 0]
        pushed      == Append(r.sources, source)
        setup       == SourceSetup(pushed, sourceIndex, w.now)
        scheduled   == [setup EXCEPT ![sourceIndex] =
                           SourceSchedule(setup[sourceIndex], w.now)]
    IN  IF FindNumber(QueueProperty(r), number) THEN w
        ELSE Emit([w EXCEPT !.rd[p].sources =
                       IF r.state = STATE_PLAYING THEN scheduled ELSE pushed,
                            !.rd[p].lastPush = number,
                            !.rd[p].descending = @ \/ number <= r.lastPush],
                  "push", number)

QueueShift(w, p) == [w EXCEPT !.rd[p].sources = Tail(@)]

QueueEmpty(w, p) == [w EXCEPT !.rd[p].sources = << >>]

QueueElapsedNeverCleared(r, t) == r.latestElapsed

QueueElapsed(r, t) ==
    IF ~r.latestElapsedNull THEN r.latestElapsed
    ELSE IF QueueIsEmpty(r) THEN 0
    ELSE SourceElapsed(r.sources[1], t)

QueuePlay(w, p) ==
    LET r  == w.rd[p]
        w0 == Emit(w, "play", 0)
    IN  IF r.state = STATE_PLAYING THEN w0
        ELSE IF r.state = STATE_FINISHED THEN SetCurrentTime(w0, p, 0)
        ELSE ReportCaught(
                 Emit([w0 EXCEPT !.rd[p].latestElapsedNull = TRUE,
                                 !.rd[p].latestElapsed = 0,
                                 !.rd[p].state = STATE_PLAYING,
                                 !.rd[p].playingInterval = TRUE,
                                 !.rd[p].sources =
                                     SetupAndScheduleFrom(r.sources, 1, w.now),
                                 !.rd[p].cont =
                                     IF @.phase = "paused"
                                     THEN [@ EXCEPT !.phase = "resumed", !.T = w.now]
                                     ELSE NoCont],
                      "onPlay", 0),
                 r.sources, 1)

QueuePauseAllOffsets(w, p) ==
    LET r == w.rd[p]
        e == SourceElapsed(r.sources[1], w.now)
    IN  IF r.state = STATE_PAUSED THEN w
        ELSE Emit([w EXCEPT
                 !.rd[p].latestElapsedNull =
                     IF QueueIsEmpty(r) THEN @ ELSE FALSE,
                 !.rd[p].latestElapsed = IF QueueIsEmpty(r) THEN @ ELSE e,
                 !.rd[p].state = STATE_PAUSED,
                 !.rd[p].playingInterval = FALSE,
                 !.rd[p].sources =
                     [i \in 1 .. Len(r.sources) |->
                        [SourceCancel(r.sources[i]) EXCEPT !.startsFrom = e]],
                 !.rd[p].cont = NoCont],
               "onPause", 0)

QueuePause(w, p) ==
    LET r == w.rd[p]
        e == SourceElapsed(r.sources[1], w.now)
    IN  IF r.state = STATE_PAUSED THEN w
        ELSE Emit([w EXCEPT
                 !.rd[p].latestElapsedNull =
                     IF QueueIsEmpty(r) THEN @ ELSE FALSE,
                 !.rd[p].latestElapsed = IF QueueIsEmpty(r) THEN @ ELSE e,
                 !.rd[p].state = STATE_PAUSED,
                 !.rd[p].playingInterval = FALSE,
                 !.rd[p].sources =
                     [i \in 1 .. Len(r.sources) |->
                        IF i = 1
                        THEN [SourceCancel(r.sources[i]) EXCEPT !.startsFrom = e]
                        ELSE SourceCancel(r.sources[i])],
                 !.rd[p].cont =
                     IF r.state = STATE_PLAYING /\ ~QueueIsEmpty(r)
                     THEN [phase |-> "paused", e |-> QueueElapsed(r, w.now), T |-> 0,
                           dur |-> BufferDuration(r.sources[1].number)]
                     ELSE NoCont],
               "onPause", 0)

\* ------------------------------------------------------------------ Reader
\* Besides the fields of the Reader and of its SourceQueue a record keeps
\* what an observer of the player has seen: seeksDone, the seeks that took
\* effect; lastPush and descending, the order of the pushes; cont, the
\* elapsed time read at the last pause and the clock at the resume after it;
\* asked, the time of the last seek requested and not yet run; quiet and
\* held, a pauseAll not yet followed by a call on this player; finishes, the
\* number of times onFinish was raised.  id is the id of the Player that owns
\* the Reader (Undefined until the player is added); destroyed tells that
\* destroy() was called, after which meta is "destroyed": the fragment table
\* is empty (a metadata response that arrives later fills the new table).
NewReader ==
    [id |-> Undefined,
     destroyed |-> FALSE,
     meta |-> "pending",
     buffer |-> [n \in 0 .. (Len(Durations) - 1) |-> FALSE],
     loads |-> EmptyBag,
     currentFragmentNumber |-> 0,
     buffering |-> TRUE,
     jumped |-> FALSE,
     playingInterval |-> FALSE,
     seeksDone |-> 0,
     lastPush |-> -1,
     descending |-> FALSE,
     cont |-> NoCont,
     asked |-> Undefined,
     quiet |-> FALSE,
     held |-> FALSE,
     finishes |-> 0,
     metadataErrors |-> 0,
     metadataFetched |-> 0,
     state |-> NewQueueFields.state,
     sources |-> NewQueueFields.sources,
     latestElapsedNull |-> NewQueueFields.latestElapsedNull,
     latestElapsed |-> NewQueueFields.latestElapsed]

FragmentsLength(r) == IF r.meta = "loaded" THEN Len(Durations) ELSE 0

\* Reader.prototype.state.
ReaderState(r) == IF r.buffering THEN STATE_BUFFERING ELSE r.state

GetFragmentNumber(time) == time \div FRAGMENT_DURATION

GetCurrentTime(r, t) ==
    r.currentFragmentNumber * FRAGMENT_DURATION + QueueElapsed(r, t)

IsFragmentLoaded(r, number) == r.buffer[number]

AllLoaded(r) ==
    /\ FragmentsLength(r) > 0
    /\ \A n \in 0 .. (FragmentsLength(r) - 1) : IsFragmentLoaded(r, n)

LoadFragmentUnloaded(r, number) ==
    IF number >= FragmentsLength(r) THEN "none" ELSE "callback"

LoadFragmentPastEnd(r, number) ==
    IF number > FragmentsLength(r) THEN "none"
    ELSE IF number < FragmentsLength(r) /\ IsFragmentLoaded(r, number) THEN "callback"
    ELSE "fetch"

\* What loadFragment does with a request: nothing past the end of the
\* fragment table, the callback at once for a decoded fragment, a transport
\* fetch otherwise.
LoadFragment(r, number) ==
    IF number >= FragmentsLength(r) THEN "none"
    ELSE IF IsFragmentLoaded(r, number) THEN "callback"
    ELSE "fetch"

\* A load in flight keeps, besides the closure of its callback (number, kind,
\* offset, time), what an observer knows of it: issued, the seeks that had
\* taken effect when it began, and alone, whether a seek began it with no
\* other load of the session in flight.
FetchFragment(w, p, number, kind, offset, time) ==
    Emit([w EXCEPT !.rd[p].loads =
              @ (+) SetToBag({[number |-> number, kind |-> kind, offset |-> offset,
                               time |-> time,
                               alone |-> kind = "seek" /\ w.rd[p].loads = EmptyBag,
                               issued |-> w.rd[p].seeksDone]})],
         "fetch", number)

ScheduleFragment(w, p, number, offset) == QueuePush(w, p, number, offset)

LoadAndScheduleFragment(w, p, number) ==
    LET how == LoadFragment(w.rd[p], number)
        w1  == Emit(w, "loadFragment", number)
    IN  IF how = "none" THEN w1
        ELSE IF how = "callback" THEN ScheduleFragment(w1, p, number, 0)
        ELSE FetchFragment(w1, p, number, "schedule", 0, Undefined)

EndCallbackOneEarly(w, p, number) ==
    LET w1 == [w EXCEPT !.rd[p].currentFragmentNumber = number + 1]
        w2 == IF number + 2 >= FragmentsLength(w1.rd[p])
              THEN Emit([QueuePause(w1, p) EXCEPT !.rd[p].state = STATE_FINISHED,
                                                   !.rd[p].cont = NoCont,
                                                   !.rd[p].finishes = @ + 1],
                        "onFinish", 0)
              ELSE w1
    IN  LoadAndScheduleFragment(w2, p, number + 2)

EndCallbackOneAhead(w, p, number) ==
    LET w1 == [w EXCEPT !.rd[p].currentFragmentNumber = number + 1]
        w2 == IF number + 1 >= FragmentsLength(w1.rd[p])
              THEN Emit([QueuePause(w1, p) EXCEPT !.rd[p].state = STATE_FINISHED,
                                                   !.rd[p].cont = NoCont,
                                                   !.rd[p].finishes = @ + 1],
                        "onFinish", 0)
              ELSE w1
    IN  LoadAndScheduleFragment(w2, p, number + 1)

\* The end callback scheduleFragment attaches to the source of a fragment.
EndCallback(w, p, number) ==
    LET w1 == [w EXCEPT !.rd[p].currentFragmentNumber = number + 1]
        w2 == IF number + 1 >= FragmentsLength(w1.rd[p])
              THEN Emit([QueuePause(w1, p) EXCEPT !.rd[p].state = STATE_FINISHED,
                                                   !.rd[p].cont = NoCont,
                                                   !.rd[p].finishes = @ + 1],
                        "onFinish", 0)
              ELSE w1
    IN  LoadAndScheduleFragment(w2, p, number + 2)

\* The callback of the constructor's load of fragment 0.
ConstructorCallbackPrefetchFirst(w, p) ==
    IF w.rd[p].jumped THEN w
    ELSE LET w1 == LoadAndScheduleFragment(w, p, 1)
             w2 == ScheduleFragment(w1, p, 0, 0)
             w3 == Emit(w2, "onBufferingStop", 0)
         IN  [w3 EXCEPT !.rd[p].buffering = FALSE]

ConstructorCallback(w, p) ==
    IF w.rd[p].jumped THEN w
    ELSE LET w1 == ScheduleFragment(w, p, 0, 0)
             w2 == Emit(w1, "onBufferingStop", 0)
             w3 == [w2 EXCEPT !.rd[p].buffering = FALSE]
         IN  LoadAndScheduleFragment(w3, p, 1)

\* The callback of a seek's load of its target fragment.
SeekCallback(w, p, number, offset) ==
    IF w.rd[p].currentFragmentNumber # number THEN w
    ELSE LET w1 == Emit(w, "onBufferingStop", 0)
             w2 == [w1 EXCEPT !.rd[p].buffering = FALSE]
             w3 == QueuePlay(w2, p)
             w4 == ScheduleFragment(w3, p, number, offset)
         IN  LoadAndScheduleFragment(w4, p, number + 1)

\* setup() of setCurrentTime.
SeekSetup(w, p, time) ==
    LET number == GetFragmentNumber(time)
        offset == time % FRAGMENT_DURATION
        w1 == [w EXCEPT !.rd[p].currentFragmentNumber = number,
                        !.rd[p].seeksDone = @ + 1]
        w2 == QueuePause(w1, p)
        w3 == Emit([w2 EXCEPT !.rd[p].buffering = TRUE], "onBufferingStart", 0)
        w4 == Emit([QueueEmpty(w3, p) EXCEPT !.rd[p].cont = NoCont], "seek", time)
        w5 == Emit(w4, "loadFragment", number)
        how == LoadFragment(w5.rd[p], number)
    IN  IF how = "none" THEN w5
        ELSE IF how = "callback" THEN SeekCallback(w5, p, number, offset)
        ELSE FetchFragment(w5, p, number, "seek", offset, time)

\* The function setCurrentTime debounces.
SetCurrentTimeBody(w, p, time) ==
    LET w1 == [w EXCEPT !.rd[p].jumped = TRUE, !.rd[p].asked = Undefined]
    IN  IF FragmentsLength(w1.rd[p]) = 0
        THEN [w1 EXCEPT !.waiters = Append(@, <<p, time>>)]
        ELSE SeekSetup(w1, p, time)

\* The callback of a finished load.
LoadCallback(w, p, l) ==
    IF l.kind = "constructor" THEN ConstructorCallback(w, p)
    ELSE IF l.kind = "seek" THEN SeekCallback(w, p, l.number, l.offset)
    ELSE ScheduleFragment(w, p, l.number, l.offset)

\* Reader.prototype.destroy, called by Player.prototype.destroy.
ReaderDestroy(r) ==
    [r EXCEPT !.sources = << >>,
              !.meta = IF @ = "pending" THEN @ ELSE "destroyed",
              !.buffer = [n \in DOMAIN @ |-> FALSE],
              !.destroyed = TRUE]

RemoveAt(s, i) == [j \in 1 .. (Len(s) - 1) |-> IF j < i THEN s[j] ELSE s[j + 1]]

\* ------------------------------------------------- the src/diaes.js variant
\* The older build of the library.  Its Source.setup, loadFragment and
\* getFragmentNumber read as in src/js/lib/diaes.js; what differs is modelled
\* below.  A world whose thrown flag is set is one in which an uncaught
\* TypeError has ended the running handler.
Throw(w) == [Emit(w, "TypeError", 0) EXCEPT !.thrown = TRUE]

VariantSourceSchedule(s, t) ==
    LET endsAt == s.startsAt + BufferDuration(s.number)
        endsIn == endsAt - t
    IN  [s EXCEPT !.started = TRUE, !.timer = TRUE,
                  !.deadline = t + Max0(endsIn + EndGrace)]

VariantSourceElapsed(s, t) == t - s.startsAt

RECURSIVE VariantSetupAndScheduleFrom(_, _, _)
VariantSetupAndScheduleFrom(srcs, i, t) ==
    IF i > Len(srcs) THEN srcs
    ELSE LET a == SourceSetup(srcs, i, t)
             b == [a EXCEPT ![i] = VariantSourceSchedule(a[i], t)]
         IN  VariantSetupAndScheduleFrom(b, i + 1, t)

\* The index of the first source that has no node, or 0.
RECURSIVE FirstWithoutNode(_, _)
FirstWithoutNode(srcs, i) ==
    IF i > Len(srcs) THEN 0
    ELSE IF ~srcs[i].node THEN i
    ELSE FirstWithoutNode(srcs, i + 1)

RECURSIVE CancelUpTo(_, _, _)
CancelUpTo(srcs, i, last) ==
    IF i > last THEN srcs
    ELSE CancelUpTo([srcs EXCEPT ![i] = SourceCancel(srcs[i])], i + 1, last)

VariantQueuePush(w, p, number, offset) ==
    LET r           == w.rd[p]
        sourceIndex == Len(r.sources) + 1
        source      == [NewSource(r.buffer[number], number) EXCEPT
                           !.startsFrom = IF offset # 0 THEN offset ELSE 0]
        pushed      == Append(r.sources, source)
        setup       == SourceSetup(pushed, sourceIndex, w.now)
        scheduled   == [setup EXCEPT ![sourceIndex] =
                           VariantSourceSchedule(setup[sourceIndex], w.now)]
    IN  Emit([w EXCEPT !.rd[p].sources =
                  IF r.state = STATE_PLAYING THEN scheduled ELSE pushed],
             "push", number)

\* shift() destroys the first source, whose cancel() calls node.stop(): a
\* TypeError when the source was never set up.
VariantQueueShift(w, p) ==
    IF w.thrown THEN w
    ELSE IF ~w.rd[p].sources[1].node THEN Throw(w)
    ELSE [w EXCEPT !.rd[p].sources = Tail(@)]

VariantQueueEmpty(w, p) ==
    LET srcs == w.rd[p].sources
        k    == FirstWithoutNode(srcs, 1)
    IN  IF w.thrown THEN w
        ELSE IF k = 0 THEN [w EXCEPT !.rd[p].sources = << >>]
        ELSE Throw([w EXCEPT !.rd[p].sources = SubSeq(srcs, k, Len(srcs))])

VariantQueuePlay(w, p) ==
    LET r == w.rd[p]
    IN  IF w.thrown \/ r.state = STATE_PLAYING THEN w
        ELSE Emit([w EXCEPT !.rd[p].latestElapsedNull = TRUE,
                            !.rd[p].latestElapsed = 0,
                            !.rd[p].state = STATE_PLAYING,
                            !.rd[p].playingInterval = TRUE,
                            !.rd[p].sources =
                                VariantSetupAndScheduleFrom(r.sources, 1, w.now)],
                  "onPlay", 0)

\* pause() reads first().elapsed() before anything else, a TypeError on an
\* empty queue, and cancels the sources in order, a TypeError at the first
\* that has no node.
VariantQueuePause(w, p) ==
    LET r  == w.rd[p]
        e  == VariantSourceElapsed(r.sources[1], w.now)
        k  == FirstWithoutNode(r.sources, 1)
        w1 == Emit([w EXCEPT !.rd[p].latestElapsedNull = FALSE,
                             !.rd[p].latestElapsed = e,
                             !.rd[p].state = STATE_PAUSED,
                             !.rd[p].playingInterval = FALSE],
                   "onPause", 0)
    IN  IF w.thrown \/ r.state = STATE_PAUSED THEN w
        ELSE IF QueueIsEmpty(r) THEN Throw(w)
        ELSE IF k # 0
             THEN Throw([w1 EXCEPT !.rd[p].sources = CancelUpTo(r.sources, 1, k - 1)])
        ELSE [w1 EXCEPT !.rd[p].sources =
                 [CancelUpTo(r.sources, 1, Len(r.sources)) EXCEPT
                     ![1].startsFrom = @ + e]]

\* Defined while latestElapsed is set or the queue has a first source.
VariantQueueElapsed(r, t) ==
    IF ~r.latestElapsedNull THEN r.latestElapsed
    ELSE VariantSourceElapsed(r.sources[1], t)

VariantGetCurrentTime(r, t) ==
    r.currentFragmentNumber * FRAGMENT_DURATION + VariantQueueElapsed(r, t)

\* loadAndScheduleFragment called without offset or callback.
VariantLoadAndScheduleFragment(w, p, number) ==
    LET how == LoadFragment(w.rd[p], number)
        w1  == Emit(w, "loadFragment", number)
    IN  IF w.thrown \/ how = "none" THEN w
        ELSE IF how = "callback" THEN VariantQueuePush(w1, p, number, 0)
        ELSE FetchFragment(w1, p, number, "schedule", 0, Undefined)

VariantEndCallback(w, p, number) ==
    LET w1 == [w EXCEPT !.rd[p].currentFragmentNumber = number + 1]
        w2 == IF number + 1 >= FragmentsLength(w1.rd[p])
              THEN LET a == VariantQueuePause(w1, p)
                   IN  IF a.thrown THEN a
                       ELSE Emit([a EXCEPT !.rd[p].state = STATE_FINISHED,
                                           !.rd[p].finishes = @ + 1],
                                 "onFinish", 0)
              ELSE w1
    IN  VariantLoadAndScheduleFragment(w2, p, number + 2)

VariantScheduleFragment(w, p, number, offset) ==
    IF w.thrown THEN w ELSE VariantQueuePush(w, p, number, offset)

\* The callback of the constructor's loadAndScheduleFragment(0, 12, ...).
VariantConstructorCallback(w, p, offset) ==
    VariantLoadAndScheduleFragment(VariantScheduleFragment(w, p, 0, offset), p, 1)

VariantSeekCallback(w, p, number, offset) ==
    LET w1 == Emit(w, "onBufferingStop", 0)
        w2 == [w1 EXCEPT !.rd[p].buffering = FALSE]
        w3 == VariantQueuePlay(w2, p)
        w4 == VariantScheduleFragment(w3, p, number, offset)
    IN  VariantLoadAndScheduleFragment(w4, p, number + 1)

VariantLoadCallback(w, p, l) ==
    IF l.kind = "constructor" THEN VariantConstructorCallback(w, p, l.offset)
    ELSE IF l.kind = "seek" THEN VariantSeekCallback(w, p, l.number, l.offset)
    ELSE VariantScheduleFragment(w, p, l.number, l.offset)

\* setCurrentTime, which this build does not debounce.
VariantSetCurrentTime(w, p, time) ==
    LET number == GetFragmentNumber(time)
        offset == time % FRAGMENT_DURATION
        w1 == [w EXCEPT !.rd[p].currentFragmentNumber = number,
                        !.rd[p].seeksDone = @ + 1]
        w2 == VariantQueuePause(w1, p)
        w3 == IF w2.thrown THEN w2
              ELSE Emit([w2 EXCEPT !.rd[p].buffering = TRUE], "onBufferingStart", 0)
        w4 == VariantQueueEmpty(w3, p)
        w5 == Emit(w4, "loadFragment", number)
        how == LoadFragment(w4.rd[p], number)
    IN  IF w4.thrown \/ how = "none" THEN w4
        ELSE IF how = "callback" THEN VariantSeekCallback(w5, p, number, offset)
        ELSE FetchFragment(w5, p, number, "seek", offset, time)

\* ----------------------------------------------------------------- Manager
\* Besides muted, volume and gain a record keeps what an observer has seen:
\* lastSet, the last volume a caller passed to setVolume, and between, whether
\* setVolume was called since the last mute().
NewManager ==
    [muted |-> FALSE, volume |-> DefaultVolume, gain |-> DefaultGain,
     lastSet |-> Undefined, between |-> FALSE]

ManagerMute(m) == [m EXCEPT !.muted = TRUE, !.gain = 0]

ManagerSetVolume(m, volume) == [m EXCEPT !.volume = volume, !.gain = volume]

ManagerUnmuteKeepsGain(m) == [m EXCEPT !.muted = FALSE]

ManagerUnmute(m) == ManagerSetVolume([m EXCEPT !.muted = FALSE], m.volume)

\* ------------------------------------------------------------------ state
Managed == {players[i] : i \in 1 .. Len(players)}

\* The players that were constructed, destroyed or not: the responses to
\* their requests still arrive.
Created == {p \in Players : rd[p].id # Undefined}

World ==
    [now |-> now, rd |-> rd, deb |-> deb, waiters |-> waiters, out |-> << >>,
     thrown |-> FALSE]

NoDebounce == [pending |-> FALSE, deadline |-> 0, this |-> 0, time |-> 0]

Handler(op, p, n, kind, stale, w) ==
    [op |-> op, p |-> p, n |-> n, kind |-> kind, stale |-> stale,
     t |-> Undefined, alone |-> FALSE, out |-> w.out]

Idle ==
    [op |-> "tick", p |-> 0, n |-> 0, kind |-> "", stale |-> FALSE,
     t |-> Undefined, alone |-> FALSE, out |-> << >>]

Commit(w) ==
    /\ rd' = w.rd
    /\ deb' = w.deb
    /\ waiters' = w.waiters

InitWith(ps, seeks, pauseAlls, clock) ==
    /\ mgr = NewManager
    /\ now = 0
    /\ players = ps
    /\ rd = [p \in Players |->
                IF \E i \in 1 .. Len(ps) : ps[i] = p
                THEN [NewReader EXCEPT
                         !.id = (CHOOSE i \in 1 .. Len(ps) : ps[i] = p) - 1]
                ELSE NewReader]
    /\ deb = NoDebounce
    /\ waiters = << >>
    /\ pollers = {}
    /\ left = [seeks |-> seeks, pauseAlls |-> pauseAlls, clock |-> clock,
               adds |-> 0]
    /\ ev = [Idle EXCEPT !.op = "new", !.out = <<Event("onBufferingStart", 0)>>]

Init == InitWith(<<0>>, MaxSeeks, 0, MaxClock)

InitFail == InitWith(<<0>>, FailSeeks, 0, FailClock)

InitDevice == InitWith(<<0>>, 0, 0, DeviceClock)

\* The constructor of the variant neither sets buffering nor calls
\* onBufferingStart.
InitVariant ==
    /\ mgr = NewManager
    /\ now = 0
    /\ players = <<0>>
    /\ rd = [p \in Players |->
                IF p = 0 THEN [NewReader EXCEPT !.id = 0, !.buffering = FALSE]
                ELSE NewReader]
    /\ deb = NoDebounce
    /\ waiters = << >>
    /\ pollers = {}
    /\ left = [seeks |-> VariantSeeks, pauseAlls |-> 0, clock |-> VariantClock,
               adds |-> 0]
    /\ ev = [Idle EXCEPT !.op = "new"]

InitFar == InitWith(<<0>>, FarSeeks, 0, FarClock)

InitLong == InitWith(<<0>>, LongSeeks, 0, LongClock)

InitFinish == InitWith(<<0>>, 0, 0, FinishClock)

InitReplay == InitWith(<<0>>, ReplaySeeks, 0, ReplayClock)

InitVolume == InitWith(<<0>>, 0, 0, 0)

\* An empty manager that is asked for at most adds players.
InitAdding(adds) ==
    /\ mgr = NewManager
    /\ now = 0
    /\ players = << >>
    /\ rd = [p \in Players |-> NewReader]
    /\ deb = NoDebounce
    /\ waiters = << >>
    /\ pollers = {}
    /\ left = [seeks |-> 0, pauseAlls |-> 0, clock |-> 0, adds |-> adds]
    /\ ev = [Idle EXCEPT !.op = "new", !.out = <<Event("onBufferingStart", 0)>>]

InitDestroy == InitAdding(DestroyAdds)

InitIds == InitAdding(IdsAdds)

InitBurst == InitWith(<<0>>, BurstSeeks, 0, BurstClock)

InitMgr == InitWith(<<0, 1>>, MgrSeeks, MaxPauseAll, MgrClock)

InitShared == InitWith(<<0, 1>>, SharedSeeks, 0, SharedClock)

InitPause == InitWith(<<0>>, PauseSeeks, MaxPauseAll, PauseClock)

\* ---------------------------------------------------------------- actions
\* fetchMetadata's done handler.
\* On a destroyed reader the callback throws at this.player.onMetadataFetched.
MetadataFetched(p) ==
    /\ rd[p].meta = "pending"
    /\ LET w0 == Emit([World EXCEPT !.rd[p].meta = "loaded",
                                    !.rd[p].metadataFetched = @ + 1],
                       "onMetadataFetched", 0)
           w1 == Emit(w0, "loadFragment", 0)
           w2 == IF rd[p].destroyed
                 THEN Emit([World EXCEPT !.rd[p].meta = "loaded"], "TypeError", 0)
                 ELSE FetchFragment(w1, p, 0, "constructor", 0, Undefined)
       IN  /\ Commit(w2)
           /\ ev' = Handler("metadata", p, 0, "", FALSE, w2)
    /\ UNCHANGED <<mgr, now, players, pollers, left>>

\* The metadata request fails: the fail callback of fetchMetadata.  On a
\* destroyed reader it throws at this.player.onMetadataError.
MetadataFailed(p) ==
    /\ rd[p].meta = "pending"
    /\ LET w0 == [World EXCEPT !.rd[p].meta = "failed"]
           w1 == IF rd[p].destroyed
                 THEN Emit(w0, "TypeError", 0)
                 ELSE Emit([w0 EXCEPT !.rd[p].metadataErrors = @ + 1],
                           "onMetadataError", 0)
       IN  /\ Commit(w1)
           /\ ev' = Handler("metadataFailed", p, 0, "", FALSE, w1)
    /\ UNCHANGED <<mgr, now, players, pollers, left>>

\* The response to one in-flight fetch, up to decodeAudioData's success
\* callback.  When the fragment table was emptied by destroy() the onload
\* handler throws at this.fragments[number].decoded.
LoadDone(p, l) ==
    /\ BagIn(l, rd[p].loads)
    /\ LET w0 == [World EXCEPT !.rd[p].loads = @ (-) SetToBag({l})]
           w1 == [w0 EXCEPT !.rd[p].buffer[l.number] = TRUE]
           w2 == IF l.number >= FragmentsLength(rd[p])
                 THEN Emit(w0, "TypeError", l.number)
                 ELSE LoadCallback(w1, p, l)
       IN  /\ Commit(w2)
           /\ ev' = [Handler("load", p, l.number, l.kind,
                             l.issued < rd[p].seeksDone, w2)
                        EXCEPT !.t = l.time, !.alone = l.alone]
    /\ UNCHANGED <<mgr, now, players, pollers, left>>

\* One in-flight load fails: the request errors (it has no onerror handler),
\* or the decryption throws inside onload, or decodeAudioData rejects the
\* bytes (it is given no error callback).  The callback of loadFragment never
\* runs and the fragment table is not written.
LoadFailed(p, l) ==
    /\ BagIn(l, rd[p].loads)
    /\ LET w == [World EXCEPT !.rd[p].loads = @ (-) SetToBag({l})]
       IN  /\ Commit(w)
           /\ ev' = [Handler("loadFailed", p, l.number, l.kind,
                             l.issued < rd[p].seeksDone, w)
                        EXCEPT !.t = l.time, !.alone = l.alone]
    /\ UNCHANGED <<mgr, now, players, pollers, left>>

\* Player.prototype.play; on a finished queue it is a request to seek to 0.
RECURSIVE DeviceThrowsFor(_, _, _)
DeviceThrowsFor(srcs, i, F) ==
    IF i > Len(srcs) THEN srcs
    ELSE DeviceThrowsFor([srcs EXCEPT ![i].faulty = srcs[i].number \in F], i + 1, F)

\* F holds the fragments for whose nodes the output device throws during
\* this call.
PlayOn(p, F) ==
    /\ rd[p].state # STATE_PLAYING
    /\ IF rd[p].state = STATE_FINISHED
       THEN left.seeks > 0 /\ left' = [left EXCEPT !.seeks = @ - 1]
       ELSE left' = left
    /\ LET w == QueuePlay([World EXCEPT !.rd[p].quiet = FALSE,
                                        !.rd[p].held = FALSE,
                                        !.rd[p].sources = DeviceThrowsFor(@, 1, F)],
                          p)
       IN  /\ Commit(w)
           /\ ev' = Handler("play", p, 0, "", FALSE, w)
    /\ UNCHANGED <<mgr, now, players, pollers>>

Play(p) == PlayOn(p, {})

\* play() during which the output device throws for some of the units.
PlayThrows(p, F) ==
    /\ F # {}
    /\ F \subseteq {rd[p].sources[i].number : i \in 1 .. Len(rd[p].sources)}
    /\ PlayOn(p, F)

\* Player.prototype.pause
Pause(p) ==
    /\ rd[p].state # STATE_PAUSED
    /\ LET w == QueuePause(World, p)
       IN  /\ Commit(w)
           /\ ev' = Handler("pause", p, 0, "", FALSE, w)
    /\ UNCHANGED <<mgr, now, players, pollers, left>>

\* The currentTime setter of Player.
Seek(p, time) ==
    /\ left.seeks > 0
    /\ left' = [left EXCEPT !.seeks = @ - 1]
    /\ LET w == SetCurrentTime([World EXCEPT !.rd[p].held = FALSE], p, time)
       IN  /\ Commit(w)
           /\ ev' = Handler("setCurrentTime", p, time, "", FALSE, w)
    /\ UNCHANGED <<mgr, now, players, pollers>>

\* The debounce timer runs out.
DebounceFire ==
    /\ deb.pending
    /\ deb.deadline <= now
    /\ LET w == SetCurrentTimeBody([World EXCEPT !.deb = NoDebounce],
                                   deb.this, deb.time)
       IN  /\ Commit(w)
           /\ ev' = [Handler("debounced", deb.this, deb.time, "", FALSE, w)
                        EXCEPT !.t = deb.time,
                               !.alone = rd[deb.this].loads = EmptyBag]
    /\ UNCHANGED <<mgr, now, players, pollers, left>>

\* A waitingFragments interval finds the fragment table filled.
WaiterFire(i) ==
    /\ i \in 1 .. Len(waiters)
    /\ FragmentsLength(rd[waiters[i][1]]) # 0
    /\ LET w == SeekSetup([World EXCEPT !.waiters = RemoveAt(@, i)],
                          waiters[i][1], waiters[i][2])
       IN  /\ Commit(w)
           /\ ev' = [Handler("waited", waiters[i][1], waiters[i][2], "", FALSE, w)
                        EXCEPT !.t = waiters[i][2],
                               !.alone = rd[waiters[i][1]].loads = EmptyBag]
    /\ UNCHANGED <<mgr, now, players, pollers, left>>

\* Timers created earlier run first among those due at the same instant; the
\* end timers of a queue are always created in queue order.
EndTimerDue(p, i) ==
    /\ i \in 1 .. Len(rd[p].sources)
    /\ rd[p].sources[i].timer
    /\ rd[p].sources[i].deadline <= now
    /\ \A j \in 1 .. (i - 1) :
           ~(rd[p].sources[j].timer /\ rd[p].sources[j].deadline <= now)

\* The end timer of a source fires.
EndTimer(p, i) ==
    /\ EndTimerDue(p, i)
    /\ LET s  == rd[p].sources[i]
           w1 == [World EXCEPT !.rd[p].sources[i].timer = FALSE]
           w2 == EndCallback(w1, p, s.number)
           w3 == Emit(QueueShift(w2, p), "shift", w2.rd[p].sources[1].number)
       IN  /\ Commit(w3)
           /\ ev' = Handler("end", p, s.number, IF i = 1 THEN "head" ELSE "later",
                            FALSE, w3)
    /\ UNCHANGED <<mgr, now, players, pollers, left>>

\* Manager.prototype.pauseAll
RECURSIVE PauseEach(_, _)
PauseEach(w, i) ==
    IF i > Len(players) THEN w ELSE PauseEach(QueuePause(w, players[i]), i + 1)

PauseAll(id) ==
    /\ left.pauseAlls > 0
    /\ left' = [left EXCEPT !.pauseAlls = @ - 1]
    /\ LET w0    == [World EXCEPT !.rd =
                         [p \in Players |->
                            IF p \in Managed
                            THEN [rd[p] EXCEPT !.quiet = AllLoaded(rd[p]),
                                               !.held = @ \/ (id = Undefined
                                                              /\ rd[p].buffering)]
                            ELSE rd[p]]]
           w     == PauseEach(w0, 1)
           polled == {i \in 1 .. Len(players) :
                         rd[players[i]].buffering /\ rd[players[i]].id # id}
           last   == CHOOSE i \in polled : \A j \in polled : j <= i
       IN  /\ Commit(w)
           /\ pollers' = pollers \cup
                 {[call |-> left.pauseAlls, p |-> players[i], clears |-> players[last]]
                    : i \in polled}
           /\ ev' = Handler("pauseAll", id, 0, "", FALSE, w)
    /\ UNCHANGED <<mgr, now, players>>

PollerActs(x) ==
    /\ ~rd[x.p].destroyed
    /\ ~rd[x.p].buffering
    /\ \/ rd[x.p].state # STATE_PAUSED
       \/ \E y \in pollers : y.call = x.call /\ y.p = x.clears

\* A pauseAll interval finds its player no longer buffering.
PollerFire(x) ==
    /\ x \in pollers
    /\ PollerActs(x)
    /\ LET w == QueuePause(World, x.p)
       IN  /\ Commit(w)
           /\ ev' = Handler("poll", x.p, 0, "", FALSE, w)
    /\ pollers' = {y \in pollers : ~(y.call = x.call /\ y.p = x.clears)}
    /\ UNCHANGED <<mgr, now, players, left>>

\* Manager.prototype.mute
Mute ==
    /\ mgr' = [ManagerMute(mgr) EXCEPT !.between = FALSE]
    /\ ev' = [Idle EXCEPT !.op = "mute"]
    /\ UNCHANGED <<now, players, rd, deb, waiters, pollers, left>>

\* Manager.prototype.unmute
Unmute ==
    /\ mgr' = ManagerUnmute(mgr)
    /\ ev' = [Idle EXCEPT !.op = "unmute"]
    /\ UNCHANGED <<now, players, rd, deb, waiters, pollers, left>>

\* Manager.prototype.setVolume
SetVolume(volume) ==
    /\ mgr' = [ManagerSetVolume(mgr, volume) EXCEPT !.lastSet = volume,
                                                    !.between = TRUE]
    /\ ev' = [Idle EXCEPT !.op = "setVolume", !.n = volume]
    /\ UNCHANGED <<now, players, rd, deb, waiters, pollers, left>>

\* Manager.prototype.add: the new Player takes the length of the list as id.
Add(p) ==
    /\ rd[p].id = Undefined
    /\ \A q \in Players : q < p => rd[q].id # Undefined
    /\ left.adds > 0
    /\ left' = [left EXCEPT !.adds = @ - 1]
    /\ players' = Append(players, p)
    /\ rd' = [rd EXCEPT ![p].id = Len(players)]
    /\ ev' = [Idle EXCEPT !.op = "new", !.p = p,
                          !.out = <<Event("onBufferingStart", 0)>>]
    /\ UNCHANGED <<mgr, now, deb, waiters, pollers>>

DestroyUnusedKeepsFirst(ps) == IF Len(ps) > 1 THEN <<ps[1]>> ELSE ps

\* The players destroyUnused leaves in the list.
DestroyUnusedKeeps(ps) == IF Len(ps) > 1 THEN <<ps[Len(ps)]>> ELSE ps

\* Manager.prototype.destroyUnused
DestroyUnused ==
    /\ players' = DestroyUnusedKeeps(players)
    /\ rd' = [p \in Players |->
                 IF p \in Managed /\ p \notin {players'[i] : i \in 1 .. Len(players')}
                 THEN ReaderDestroy(rd[p])
                 ELSE rd[p]]
    /\ ev' = [Idle EXCEPT !.op = "destroyUnused"]
    /\ UNCHANGED <<mgr, now, deb, waiters, pollers, left>>

\* ----------------------------------------- actions of the src/diaes.js variant
\* The metadata response: the constructor asks for fragment 0 at offset 12.
VariantMetadataFetched(p) ==
    /\ rd[p].meta = "pending"
    /\ LET w0 == [World EXCEPT !.rd[p].meta = "loaded"]
           w1 == Emit(w0, "loadFragment", 0)
           w2 == FetchFragment(w1, p, 0, "constructor", ConstructorOffset, Undefined)
       IN  /\ Commit(w2)
           /\ ev' = Handler("metadata", p, 0, "", FALSE, w2)
    /\ UNCHANGED <<mgr, now, players, pollers, left>>

VariantLoadDone(p, l) ==
    /\ BagIn(l, rd[p].loads)
    /\ LET w1 == [World EXCEPT !.rd[p].loads = @ (-) SetToBag({l}),
                               !.rd[p].buffer[l.number] = TRUE]
           w2 == VariantLoadCallback(w1, p, l)
       IN  /\ Commit(w2)
           /\ ev' = [Handler("load", p, l.number, l.kind,
                             l.issued < rd[p].seeksDone, w2)
                        EXCEPT !.t = l.time, !.alone = l.alone]
    /\ UNCHANGED <<mgr, now, players, pollers, left>>

VariantPlay(p) ==
    /\ rd[p].state # STATE_PLAYING
    /\ LET w == VariantQueuePlay(World, p)
       IN  /\ Commit(w)
           /\ ev' = Handler("play", p, 0, "", FALSE, w)
    /\ UNCHANGED <<mgr, now, players, pollers, left>>

VariantPause(p) ==
    /\ rd[p].state # STATE_PAUSED
    /\ LET w == VariantQueuePause(World, p)
       IN  /\ Commit(w)
           /\ ev' = Handler("pause", p, 0, "", FALSE, w)
    /\ UNCHANGED <<mgr, now, players, pollers, left>>

VariantSeek(p, time) ==
    /\ left.seeks > 0
    /\ left' = [left EXCEPT !.seeks = @ - 1]
    /\ LET w == VariantSetCurrentTime(World, p, time)
       IN  /\ Commit(w)
           /\ ev' = [Handler("setCurrentTime", p, time, "", FALSE, w)
                        EXCEPT !.t = time]
    /\ UNCHANGED <<mgr, now, players, pollers>>

VariantEndTimer(p, i) ==
    /\ EndTimerDue(p, i)
    /\ LET s  == rd[p].sources[i]
           w1 == [World EXCEPT !.rd[p].sources[i].timer = FALSE]
           w2 == VariantEndCallback(w1, p, s.number)
           w3 == VariantQueueShift(w2, p)
       IN  /\ Commit(w3)
           /\ ev' = Handler("end", p, s.number, IF i = 1 THEN "head" ELSE "later",
                            FALSE, w3)
    /\ UNCHANGED <<mgr, now, players, pollers, left>>

Deadlines ==
    UNION {{rd[p].sources[i].deadline :
               i \in {j \in 1 .. Len(rd[p].sources) : rd[p].sources[j].timer}}
           : p \in Players}
    \cup (IF deb.pending THEN {deb.deadline} ELSE {})

Urgent ==
    \/ \E x \in pollers : PollerActs(x)
    \/ \E i \in 1 .. Len(waiters) : FragmentsLength(rd[waiters[i][1]]) # 0

\* The clock advances, never past the deadline of an armed timer.
Tick(d) ==
    /\ d > 0
    /\ now + d <= left.clock
    /\ \A D \in Deadlines : now + d <= D
    /\ ~Urgent
    /\ now' = now + d
    /\ ev' = Idle
    /\ UNCHANGED <<mgr, players, rd, deb, waiters, pollers, left>>

\* The clock runs to the next instant of the grid, or to the next timer deadline
\* if that comes first; while the debounce timer runs it may also stop short.
TickChoices ==
    LET grid == TickStep - (now % TickStep)
        due  == {D - now : D \in Deadlines}
        next == IF \E x \in due : x < grid
                THEN CHOOSE x \in due : \A y \in due : x <= y
                ELSE grid
    IN  {next} \cup (IF deb.pending /\ left.seeks > 0 THEN {ShortStep} ELSE {})

\* The clock runs to the deadline of the next armed timer.
RunToTimer ==
    /\ Deadlines # {}
    /\ ~Urgent
    /\ LET D == CHOOSE x \in Deadlines : \A y \in Deadlines : x <= y
       IN  D > now /\ now' = D
    /\ ev' = Idle
    /\ UNCHANGED <<mgr, players, rd, deb, waiters, pollers, left>>

Next ==
    \/ \E p \in Created : MetadataFetched(p)
    \/ \E p \in Created : \E l \in BagToSet(rd[p].loads) : LoadDone(p, l)
    \/ \E p \in Managed : Play(p)
    \/ \E p \in Managed : Pause(p)
    \/ \E p \in Managed : \E t \in SeekTimes : Seek(p, t)
    \/ DebounceFire
    \/ \E i \in 1 .. Len(waiters) : WaiterFire(i)
    \/ \E p \in Managed : \E i \in 1 .. Len(rd[p].sources) : EndTimer(p, i)
    \/ \E d \in TickChoices : Tick(d)

NextFinish ==
    \/ \E p \in Created : MetadataFetched(p)
    \/ \E p \in Created : \E l \in BagToSet(rd[p].loads) : LoadDone(p, l)
    \/ \E p \in Managed : Play(p)
    \/ \E p \in Managed : \E i \in 1 .. Len(rd[p].sources) : EndTimer(p, i)
    \/ \E d \in TickChoices : Tick(d)
    \/ RunToTimer

NextVolume ==
    \/ \E p \in Created : MetadataFetched(p)
    \/ \E p \in Created : \E l \in BagToSet(rd[p].loads) : LoadDone(p, l)
    \/ \E p \in Managed : Play(p)
    \/ \E p \in Managed : Pause(p)
    \/ Mute
    \/ Unmute
    \/ \E v \in Volumes : SetVolume(v)

NextDestroy ==
    \/ \E p \in Players : Add(p)
    \/ \E p \in Created : MetadataFetched(p)
    \/ \E p \in Created : \E l \in BagToSet(rd[p].loads) : LoadDone(p, l)
    \/ \E p \in Managed : Play(p)
    \/ \E p \in Managed : Pause(p)
    \/ DestroyUnused

NextShared ==
    \/ \E p \in Created : MetadataFetched(p)
    \/ \E p \in Created : \E l \in BagToSet(rd[p].loads) : LoadDone(p, l)
    \/ \E p \in Managed : \E t \in SeekTimes : Seek(p, t)
    \/ DebounceFire
    \/ \E i \in 1 .. Len(waiters) : WaiterFire(i)
    \/ \E p \in Managed : \E i \in 1 .. Len(rd[p].sources) : EndTimer(p, i)
    \/ \E d \in TickChoices : Tick(d)

NextFail ==
    \/ Next
    \/ \E p \in Created : MetadataFailed(p)
    \/ \E p \in Created : \E l \in BagToSet(rd[p].loads) : LoadFailed(p, l)

NextDevice ==
    \/ \E p \in Created : MetadataFetched(p)
    \/ \E p \in Created : \E l \in BagToSet(rd[p].loads) : LoadDone(p, l)
    \/ \E p \in Managed : Play(p)
    \/ \E p \in Managed :
           \E F \in SUBSET (0 .. (Len(Durations) - 1)) : PlayThrows(p, F)
    \/ \E p \in Managed : Pause(p)
    \/ \E p \in Managed : \E i \in 1 .. Len(rd[p].sources) : EndTimer(p, i)
    \/ \E d \in TickChoices : Tick(d)

NextVariant ==
    \/ \E p \in Managed : VariantMetadataFetched(p)
    \/ \E p \in Managed : \E l \in BagToSet(rd[p].loads) : VariantLoadDone(p, l)
    \/ \E p \in Managed : VariantPlay(p)
    \/ \E p \in Managed : VariantPause(p)
    \/ \E p \in Managed : \E t \in SeekTimes : VariantSeek(p, t)
    \/ \E p \in Managed : \E i \in 1 .. Len(rd[p].sources) : VariantEndTimer(p, i)
    \/ \E d \in TickChoices : Tick(d)

NextFar ==
    \/ \E p \in Created : MetadataFetched(p)
    \/ \E p \in Created : \E l \in BagToSet(rd[p].loads) : LoadDone(p, l)
    \/ \E p \in Managed : Play(p)
    \/ \E p \in Managed : \E t \in FarSeekTimes : Seek(p, t)
    \/ DebounceFire
    \/ \E i \in 1 .. Len(waiters) : WaiterFire(i)
    \/ \E p \in Managed : \E i \in 1 .. Len(rd[p].sources) : EndTimer(p, i)
    \/ \E d \in TickChoices : Tick(d)
    \/ RunToTimer

NextMgr ==
    \/ Next
    \/ \E id \in Managed \cup {Undefined} : PauseAll(id)
    \/ \E x \in pollers : PollerFire(x)

\* One player, one seek, into the second fragment.
Spec == Init /\ [][Next]_vars

\* One player, one seek, requests that may fail.
SpecFail == InitFail /\ [][NextFail]_vars

\* One player that is started and paused on an output device that may throw.
SpecDevice == InitDevice /\ [][NextDevice]_vars

\* One player of the src/diaes.js variant, one seek.
SpecVariant == InitVariant /\ [][NextVariant]_vars

\* One player and one seek, into the track or past its end: responses arrive,
\* timers fire and the clock reaches the next deadline.
SpecFar ==
    /\ InitFar
    /\ [][NextFar]_vars
    /\ WF_vars(\E p \in Created : MetadataFetched(p))
    /\ WF_vars(\E p \in Created : \E l \in BagToSet(rd[p].loads) : LoadDone(p, l))
    /\ WF_vars(DebounceFire)
    /\ WF_vars(\E i \in 1 .. Len(waiters) : WaiterFire(i))
    /\ WF_vars(\E p \in Managed : \E i \in 1 .. Len(rd[p].sources) : EndTimer(p, i))
    /\ WF_vars(RunToTimer)

\* One player, one seek, the whole track.
SpecLong == InitLong /\ [][Next]_vars

\* One player that is only started: responses arrive, timers fire and the
\* clock reaches the next deadline.
SpecFinish ==
    /\ InitFinish
    /\ [][NextFinish]_vars
    /\ WF_vars(\E p \in Created : MetadataFetched(p))
    /\ WF_vars(\E p \in Created : \E l \in BagToSet(rd[p].loads) : LoadDone(p, l))
    /\ WF_vars(\E p \in Managed : \E i \in 1 .. Len(rd[p].sources) : EndTimer(p, i))
    /\ WF_vars(RunToTimer)

\* One player, two seeks and a replay, the first second.
SpecReplay == InitReplay /\ [][Next]_vars

\* One player that is started and paused while the volume of its manager is
\* set, muted and unmuted.
SpecVolume == InitVolume /\ [][NextVolume]_vars

\* Players are added to a manager, started and paused, and the unused ones
\* destroyed.
SpecDestroy == InitDestroy /\ [][NextDestroy]_vars

\* An empty manager, three players added, destroyUnused at any time.
SpecIds == InitIds /\ [][NextDestroy]_vars

\* One player, two seeks, the first fragment.
SpecBurst == InitBurst /\ [][Next]_vars

\* Two players under one manager.
SpecMgr == InitMgr /\ [][NextMgr]_vars

\* Two players that are only loaded and sought.
SpecShared == InitShared /\ [][NextShared]_vars

\* One player under a manager.
SpecPause == InitPause /\ [][NextMgr]_vars

\* ------------------------------------------------------------------ claims
LoadRan(kind) == ev.op = "load" /\ ev.kind = kind

InFlight(p, number) ==
    LET ls == {l \in BagToSet(rd[p].loads) : l.number = number}
    IN  IF ls = {} THEN 0
        ELSE BagCardinality([l \in ls |-> CopiesIn(l, rd[p].loads)])

\* C1: the completion of a seek's target load that a later seek has
\* superseded schedules no unit, does not clear the buffering flag and does
\* not call queue.play().
C1_SupersededSeekDiscarded ==
    (LoadRan("seek") /\ ev.stale) =>
        /\ ~Emitted("push")
        /\ ~Emitted("onBufferingStop")
        /\ ~Emitted("play")

\* C2: a prefetch load issued before a seek and completing after the seek has
\* taken effect pushes no unit into the queue.
C2_StalePrefetchDiscarded ==
    (LoadRan("schedule") /\ ev.stale) => ~Emitted("push")

\* C3: the queue never holds two units for the same fragment index.
C3_OneUnitPerFragment ==
    \A p \in Players :
        \A i, j \in 1 .. Len(rd[p].sources) :
            i # j => rd[p].sources[i].number # rd[p].sources[j].number

\* C4: at most one transport fetch and decode is in flight for a fragment:
\* a loadFragment call made while a load of the same fragment is in flight
\* waits on that load.
C4_OneFetchPerFragment ==
    \A p \in Players :
        \A n \in 0 .. (Len(Durations) - 1) : InFlight(p, n) <= 1

\* C5: in a session on which no seek was requested, units are pushed into the
\* queue in ascending order of fragment index.
C5_PushesAscendWithoutSeek ==
    \A p \in Players :
        (~rd[p].jumped /\ rd[p].asked = Undefined /\ rd[p].seeksDone = 0)
            => ~rd[p].descending

Chained(srcs) ==
    \A i \in 1 .. (Len(srcs) - 1) :
        srcs[i + 1].startsAt =
            srcs[i].startsAt + BufferDuration(srcs[i].number) - srcs[i].startsFrom

\* C6: while the queue is Playing every unit starts exactly where the audible
\* content of the unit before it ends.
C6_GaplessChaining ==
    \A p \in Players : rd[p].state = STATE_PLAYING => Chained(rd[p].sources)

\* C6 witness: a unit was pushed while Playing behind a head that play() had
\* resumed in the middle of its fragment.
C6_Witness ==
    /\ ev.op = "load" /\ Emitted("push")
    /\ rd[0].state = STATE_PLAYING
    /\ Len(rd[0].sources) >= 2
    /\ rd[0].sources[1].startsFrom > 0
    /\ rd[0].sources[1].startsAt > 0

\* C7: elapsed() keeps the value it had just before pause() for as long as
\* the queue stays paused, and after the next play() it grows from that value
\* with the clock until the head unit ends.
C7_PauseResumeContinuity ==
    \A p \in Players :
        LET c == rd[p].cont
        IN  /\ c.phase = "paused" => QueueElapsed(rd[p], now) = c.e
            /\ (c.phase = "resumed" /\ c.e + (now - c.T) < c.dur)
                   => QueueElapsed(rd[p], now) = c.e + (now - c.T)

\* C7 witness: the clock has advanced since a play() that followed a pause()
\* in the middle of a fragment, the clock having advanced before it too.
C7_Witness ==
    /\ rd[0].cont.phase = "resumed"
    /\ rd[0].cont.e > 0
    /\ rd[0].cont.T > rd[0].cont.e
    /\ now > rd[0].cont.T
    /\ rd[0].cont.e + (now - rd[0].cont.T) < rd[0].cont.dur

Count(e, n) == Cardinality({i \in 1 .. Len(ev.out) : ev.out[i] = Event(e, n)})

SeekRan ==
    \/ ev.op = "waited"
    \/ ev.op = "debounced" /\ FragmentsLength(rd[ev.p]) # 0

\* C8: a burst of seeks on one session runs the seek algorithm once, with the
\* last time requested: the time a session asked for last is the time the
\* debounce timer will run for that session, and a run of the seek algorithm
\* assigns currentFragmentNumber once, to the fragment of that time, and
\* calls loadFragment once for it.
C8_DebounceCollapse ==
    /\ \A p \in Players :
           rd[p].asked # Undefined =>
               deb.pending /\ deb.this = p /\ deb.time = rd[p].asked
    /\ SeekRan =>
           /\ Count("seek", ev.n) = 1
           /\ \A i \in 1 .. Len(ev.out) : ev.out[i].e = "seek" => ev.out[i].n = ev.n
           /\ rd[ev.p].currentFragmentNumber = ev.n \div FRAGMENT_DURATION
           /\ Count("loadFragment", ev.n \div FRAGMENT_DURATION) = 1

\* C9: a session whose fragments were all loaded when pauseAll() was called
\* is not Playing until play() is called on it.
C9_QuietAfterPauseAll ==
    \A p \in Players : rd[p].quiet => rd[p].state # STATE_PLAYING

\* C10: a session that was buffering when pauseAll() was called with no
\* exceptId is not Playing until play() or a seek is called on it.
C10_BufferingSessionStaysPaused ==
    \A p \in Players : rd[p].held => rd[p].state # STATE_PLAYING

\* The target load of a seek has completed (or the target was already decoded
\* when the seek ran), the seek having begun with no other load of the session
\* in flight and no later seek having taken effect.
SeekLanded ==
    /\ ev.alone
    /\ \/ LoadRan("seek") /\ ~ev.stale
       \/ ev.op \in {"debounced", "waited"} /\ Emitted("onBufferingStop")

\* C11: when the target load of a seek to time t completes, the seek not
\* superseded and running with no other load pending, currentFragmentNumber is
\* floor(t / FRAGMENT_DURATION), the head of the queue is a unit for that
\* fragment with startsFrom = t mod FRAGMENT_DURATION, and getCurrentTime()
\* returns t.
C11_SeekLandsOnTime ==
    SeekLanded =>
        LET r == rd[ev.p]
        IN  /\ r.currentFragmentNumber = ev.t \div FRAGMENT_DURATION
            /\ Len(r.sources) >= 1
            /\ r.sources[1].number = ev.t \div FRAGMENT_DURATION
            /\ r.sources[1].startsFrom = ev.t % FRAGMENT_DURATION
            /\ GetCurrentTime(r, now) = ev.t

\* C11 witness: the fetch of fragment 2 for a seek to 40 s has completed, some
\* time after the player was started.
C11_Witness ==
    /\ SeekLanded
    /\ LoadRan("seek")
    /\ ev.t = 400
    /\ now > DebounceWait

\* C12: a track started by play() and neither sought nor paused raises
\* onFinish exactly once: never twice, only from an end event that sets
\* currentFragmentNumber to the length of the fragment table, and always
\* once it is playing.
C12_FinishExactlyOnce ==
    /\ [](\A p \in Players :
            /\ rd[p].finishes <= 1
            /\ (ev.p = p /\ Emitted("onFinish")) =>
                   /\ ev.op = "end"
                   /\ Count("onFinish", 0) = 1
                   /\ rd[p].currentFragmentNumber = Len(Durations))
    /\ \A p \in Players :
           (rd[p].state = STATE_PLAYING) ~> (rd[p].finishes = 1)

\* C12 witness: the end event of the last fragment raised onFinish after the
\* three fragments were pushed in order.
C12_Witness ==
    /\ ev.op = "end" /\ ev.n = Len(Durations) - 1 /\ Emitted("onFinish")
    /\ rd[0].finishes = 1
    /\ rd[0].lastPush = Len(Durations) - 1 /\ ~rd[0].descending

LoadBegun(number) == EmittedN("fetch", number) \/ EmittedN("push", number)

\* C13: the end event of the unit for fragment n sets currentFragmentNumber to
\* n + 1; if no fragment n + 1 exists the queue is paused and marked Finished,
\* onFinish is raised and nothing is fetched; otherwise onFinish is not raised
\* and a load of fragment n + 2 is begun exactly when fragment n + 2 exists.
C13_EndEventAdvances ==
    ev.op = "end" =>
        LET r == rd[ev.p]
            N == Len(Durations)
        IN  /\ r.currentFragmentNumber = ev.n + 1
            /\ IF ev.n + 1 >= N
               THEN /\ r.state = STATE_FINISHED
                    /\ ~r.playingInterval
                    /\ \A i \in 1 .. Len(r.sources) : ~r.sources[i].timer
                    /\ Count("onFinish", 0) = 1
                    /\ ~Emitted("fetch")
               ELSE /\ ~Emitted("onFinish")
                    /\ r.state = STATE_PLAYING
                    /\ LoadBegun(ev.n + 2) <=> ev.n + 2 < N
                    /\ \A i \in 1 .. Len(ev.out) :
                           ev.out[i].e \in {"fetch", "push"} => ev.out[i].n = ev.n + 2

\* C13 witness: the end event of fragment 0 began the fetch of fragment 2.
C13_Witness ==
    /\ ev.op = "end" /\ ev.n = 0
    /\ rd[ev.p].currentFragmentNumber = 1
    /\ EmittedN("fetch", 2)

\* C14: the queue starts Paused and its state only changes from Paused to
\* Playing in a call of play(), from Playing to Paused in a call of pause(),
\* from Playing to Finished in the end event of a unit after which no
\* fragment is left, and from Finished to Paused or Playing in the run of a
\* seek.
C14_StateMachine ==
    /\ \A p \in Players : rd[p].state = STATE_PAUSED
    /\ [][\A p \in Players :
              LET a == rd[p].state
                  b == rd'[p].state
                  did(e) == \E i \in 1 .. Len(ev'.out) : ev'.out[i].e = e
              IN  a # b =>
                    \/ a = STATE_PAUSED /\ b = STATE_PLAYING /\ did("play")
                    \/ a = STATE_PLAYING /\ b = STATE_PAUSED /\ did("onPause")
                    \/ /\ a = STATE_PLAYING /\ b = STATE_FINISHED
                       /\ ev'.op = "end" /\ ev'.n + 1 >= Len(Durations)
                    \/ /\ a = STATE_FINISHED /\ b \in {STATE_PAUSED, STATE_PLAYING}
                       /\ ev'.op \in {"debounced", "waited"}]_vars

\* C15: while the queue is Playing every unit in it has an output node and an
\* armed end timer (the unit whose end event fires leaves the queue in the
\* same handler).
C15_PlayingUnitsScheduled ==
    \A p \in Players :
        rd[p].state = STATE_PLAYING =>
            \A i \in 1 .. Len(rd[p].sources) :
                rd[p].sources[i].node /\ rd[p].sources[i].timer

\* C15 witness: a unit was pushed behind another while Playing, the player
\* being past fragment 0.
C15_Witness ==
    /\ ev.op = "load" /\ Emitted("push")
    /\ rd[0].state = STATE_PLAYING
    /\ Len(rd[0].sources) >= 2
    /\ rd[0].currentFragmentNumber >= 1

\* C16: every unit in the queue is for a fragment of the fragment table and
\* holds the decoded buffer of that fragment: a unit is pushed only once its
\* fragment is decoded.
C16_UnitsHoldDecodedBuffers ==
    \A p \in Players :
        \A i \in 1 .. Len(rd[p].sources) :
            LET s == rd[p].sources[i]
            IN  /\ s.number \in 0 .. (FragmentsLength(rd[p]) - 1)
                /\ s.buffer
                /\ IsFragmentLoaded(rd[p], s.number)

\* C16 witness: the fetch of fragment 2 completed while fragment 1 was still
\* being fetched, and its unit was pushed.
C16_Witness ==
    /\ ev.op = "load" /\ EmittedN("push", 2)
    /\ InFlight(0, 1) >= 1
    /\ Len(rd[0].sources) >= 1

\* The seek to time 0 that play() requested on a Finished queue has run and
\* its target load has completed, no later seek having taken effect.
ReplayLanded ==
    /\ ev.t = 0
    /\ \/ LoadRan("seek") /\ ~ev.stale
       \/ ev.op \in {"debounced", "waited"} /\ Emitted("onBufferingStop")

\* C17: play() on a Finished queue leaves the queue as it is and requests a
\* seek to time 0; when that seek runs currentFragmentNumber is 0, and when its
\* target load has completed the queue is Playing with a unit for fragment 0
\* at its head, startsFrom 0.
C17_PlayWhenFinishedReseeks ==
    /\ [][\A p \in Players :
              (rd[p].state = STATE_FINISHED /\ ev'.op = "play" /\ ev'.p = p) =>
                  /\ rd'[p].state = STATE_FINISHED
                  /\ rd'[p].sources = rd[p].sources
                  /\ deb'.pending /\ deb'.this = p /\ deb'.time = 0
                  /\ deb'.deadline = now + DebounceWait]_vars
    /\ []((ev.op \in {"debounced", "waited"} /\ ev.t = 0 /\ SeekRan) =>
              rd[ev.p].currentFragmentNumber = 0)
    /\ [](ReplayLanded =>
              LET r == rd[ev.p]
              IN  /\ r.currentFragmentNumber = 0
                  /\ r.state = STATE_PLAYING
                  /\ Len(r.sources) >= 1
                  /\ r.sources[1].number = 0
                  /\ r.sources[1].startsFrom = 0
                  /\ r.sources[1].timer)

\* C18: whenever the manager is muted the value of its gain node is 0,
\* whatever setVolume, mute and unmute calls were made.
C18_MutedMeansSilent == mgr.muted => mgr.gain = 0

\* C19: mute() leaves the stored volume as it is, and after unmute() the
\* manager is not muted and the value of its gain node is the stored volume,
\* which is the last volume passed to setVolume, or 1.0 if there was none.
C19_UnmuteRestoresVolume ==
    /\ [][ev'.op = "mute" => mgr'.volume = mgr.volume]_vars
    /\ [](ev.op = "unmute" =>
              /\ ~mgr.muted
              /\ mgr.gain = mgr.volume
              /\ mgr.volume = IF mgr.lastSet = Undefined THEN 10 ELSE mgr.lastSet)

\* C19 witness: unmute() restored a volume that was set while muted.
C19_Witness ==
    /\ ev.op = "unmute"
    /\ mgr.between
    /\ mgr.lastSet = 3
    /\ mgr.gain = 3

C21_LoadAfterDestroyDiscarded ==
    (ev.op = "load" /\ rd[ev.p].destroyed) => ev.out = << >>

\* C22: once the metadata request of a session has failed, onMetadataError was
\* invoked exactly once and onMetadataFetched never, no load of a fragment was
\* issued, and the queue is empty and Paused.
C22_MetadataFailureHalts ==
    \A p \in Created :
        rd[p].meta = "failed" =>
            /\ rd[p].metadataErrors = 1
            /\ rd[p].metadataFetched = 0
            /\ rd[p].loads = EmptyBag
            /\ \A n \in DOMAIN rd[p].buffer : ~rd[p].buffer[n]
            /\ rd[p].sources = << >>
            /\ rd[p].state = STATE_PAUSED

\* C23: when the load of a fragment fails, the callers waiting for it are
\* resumed with an error.
C23_FailedLoadReported ==
    ev.op = "loadFailed" => EmittedN("error", ev.n)

\* C24: loadFragment of an index at or past the fragment count does nothing:
\* no fetch, no continuation, no error, and the fragment table, the queue,
\* currentFragmentNumber and the buffering flag are as they were.
C24_LoadPastEndIsNoOp ==
    \A p \in Managed :
        LET N == FragmentsLength(rd[p])
        IN  /\ \A n \in N .. (N + 1) :
                   /\ LoadFragment(rd[p], n) = "none"
                   /\ LoadAndScheduleFragment(World, p, n) = Emit(World, "loadFragment", n)
            /\ \A l \in BagToSet(rd[p].loads) : l.number < N
            /\ \A i \in 1 .. Len(rd[p].sources) : rd[p].sources[i].number < N
            /\ (ev.p = p /\ EmittedN("loadFragment", N)) =>
                   ~EmittedN("fetch", N) /\ ~Emitted("TypeError")

\* A handler asked for the fragment after the last one.
C24_Witness ==
    /\ rd[ev.p].meta = "loaded"
    /\ EmittedN("loadFragment", Len(Durations))

\* C25: a session starts with onBufferingStart in state Buffering; the metadata
\* response gives onMetadataFetched, then the load of fragment 0; that load's
\* completion, no seek having taken effect, pushes a unit for fragment 0 with
\* startsFrom 0, then gives onBufferingStop with buffering false, and only then
\* begins the load of fragment 1.  Until a seek takes effect only play() moves
\* the queue out of Paused.
C25_ConstructionOrder ==
    /\ \A p \in Managed :
           /\ ev.out = <<Event("onBufferingStart", 0)>>
           /\ ReaderState(rd[p]) = STATE_BUFFERING
           /\ rd[p].state = STATE_PAUSED
    /\ [][\A p \in Managed :
             /\ (ev'.op = "metadata" /\ ev'.p = p) =>
                    /\ ev'.out = <<Event("onMetadataFetched", 0),
                                   Event("loadFragment", 0), Event("fetch", 0)>>
                    /\ rd'[p].sources = << >>
                    /\ rd[p].jumped \/ ReaderState(rd'[p]) = STATE_BUFFERING
             /\ (ev'.op = "load" /\ ev'.p = p /\ ev'.kind = "constructor"
                    /\ ~rd[p].jumped) =>
                    /\ Len(ev'.out) >= 3
                    /\ SubSeq(ev'.out, 1, 3) = <<Event("push", 0),
                                                 Event("onBufferingStop", 0),
                                                 Event("loadFragment", 1)>>
                    /\ rd[p].sources = << >>
                    /\ Len(rd'[p].sources) = 1
                    /\ rd'[p].sources[1].number = 0
                    /\ rd'[p].sources[1].startsFrom = 0
                    /\ ~rd'[p].buffering
                    /\ ReaderState(rd'[p]) = rd[p].state
                    /\ InFlight(p, 1) = 0 /\ InFlight(p, 1)' = 1
             /\ (~rd'[p].jumped /\ ev'.op # "play") =>
                    (rd[p].state = STATE_PAUSED => rd'[p].state = STATE_PAUSED)]_vars

\* The load of fragment 0 completed with no seek having taken effect.
C25_Witness ==
    /\ ev.op = "load"
    /\ ev.kind = "constructor"
    /\ ~rd[ev.p].jumped
    /\ EmittedN("loadFragment", 1)

C27_VariantSeekLandsOnTime ==
    \A p \in Managed :
        (ev.op = "load" /\ ev.p = p /\ ev.kind = "seek" /\ ~ev.stale) =>
            /\ ~Emitted("TypeError")
            /\ VariantGetCurrentTime(rd[p], now) = ev.t

\* C28: in the src/diaes.js variant, the constructor's load of fragment 0 ends
\* with a unit for fragment 0 whose startsFrom is 0, pushed before the load of
\* fragment 1 begins.
C28_VariantConstruction ==
    \A p \in Managed :
        (ev.op = "load" /\ ev.p = p /\ ev.kind = "constructor" /\ ev.n = 0) =>
            /\ Len(ev.out) >= 2
            /\ SubSeq(ev.out, 1, 2) = <<Event("push", 0), Event("loadFragment", 1)>>
            /\ \A i \in 1 .. Len(rd[p].sources) :
                   rd[p].sources[i].number = 0 => rd[p].sources[i].startsFrom = 0

\* C29: the end timer of a scheduled unit is due 200 ms after the unit's
\* predicted end, startsAt + duration - startsFrom (at once when that instant
\* had passed when the timer was armed); when it fires, the end callback of
\* the unit runs and then that unit is shifted out of the queue.
C29_EndTimerThenShift ==
    /\ \A p \in Managed :
           \A i \in 1 .. Len(rd[p].sources) :
               LET s   == rd[p].sources[i]
                   due == s.startsAt + BufferDuration(s.number) - s.startsFrom + EndGrace
               IN  s.timer => s.deadline = due \/ (due < s.deadline /\ s.deadline <= now)
    /\ ev.op = "end" =>
           /\ ev.kind = "head"
           /\ ev.out[Len(ev.out)] = Event("shift", ev.n)

\* C30: pause() on a Playing queue keeps the units of the queue and their
\* order, disarms the end timer of every unit, sets startsFrom of the head to
\* its elapsed offset and changes startsFrom of no other unit, and leaves
\* currentFragmentNumber and the fragment table as they were.
C30_PauseFrame ==
    [][\A p \in Managed :
          (ev'.op = "pause" /\ ev'.p = p /\ rd[p].state = STATE_PLAYING) =>
              /\ rd'[p].state = STATE_PAUSED
              /\ Len(rd'[p].sources) = Len(rd[p].sources)
              /\ \A i \in 1 .. Len(rd[p].sources) :
                     /\ rd'[p].sources[i].number = rd[p].sources[i].number
                     /\ rd'[p].sources[i].buffer = rd[p].sources[i].buffer
                     /\ rd'[p].sources[i].startsAt = rd[p].sources[i].startsAt
                     /\ ~rd'[p].sources[i].timer
                     /\ rd'[p].sources[i].startsFrom =
                            IF i = 1 THEN SourceElapsed(rd[p].sources[1], now)
                            ELSE rd[p].sources[i].startsFrom
              /\ rd'[p].currentFragmentNumber = rd[p].currentFragmentNumber
              /\ rd'[p].meta = rd[p].meta
              /\ rd'[p].buffer = rd[p].buffer
              /\ rd'[p].loads = rd[p].loads]_vars

\* pause() ran on a queue of two units whose head had played for a while.
C30_Witness ==
    /\ ev.op = "pause"
    /\ rd[ev.p].state = STATE_PAUSED
    /\ Len(rd[ev.p].sources) >= 2
    /\ rd[ev.p].sources[1].startsFrom > 0
    /\ rd[ev.p].sources[2].startsFrom = 0

\* C31: a seek requested on one session takes effect on that session whatever
\* is requested on the other sessions: while a session has a seek requested
\* and not yet run, the debounce timer is armed to run it for that session.
C31_SeeksOfSessionsIndependent ==
    \A a \in Managed :
        rd[a].asked # Undefined =>
            \/ deb.pending /\ deb.this = a
            \/ \E i \in 1 .. Len(waiters) : waiters[i][1] = a

\* C32: a poller that pauseAll() started for a buffering session pauses the
\* session once, when its buffering flag has cleared, and is disarmed by that:
\* after a poller has paused a session no poller of that session is armed, and
\* a poller is disarmed only by its own firing.
C32_PollersPauseOnce ==
    /\ [](ev.op = "poll" => \A y \in pollers : y.p # ev.p)
    /\ [][\A x \in pollers : x \notin pollers' => ev'.op = "poll" /\ ev'.p = x.p]_vars

\* C33: whenever a session is not buffering and its queue is not empty, the
\* unit at the head of the queue is for fragment currentFragmentNumber.
C33_HeadIsCurrentFragment ==
    \A p \in Managed :
        (~rd[p].buffering /\ ~QueueIsEmpty(rd[p])) =>
            rd[p].sources[1].number = rd[p].currentFragmentNumber

\* C34: the unit whose end timer fires is the head of the queue, so that the
\* shift() of the timer callback removes that unit.
C34_EndingUnitIsHead ==
    [][ev'.op = "end" =>
          \E p \in Managed :
              /\ ev'.p = p
              /\ rd[p].sources[1].timer
              /\ rd[p].sources[1].deadline <= now
              /\ rd[p].sources[1].number = ev'.n
              /\ Len(rd'[p].sources) >= Len(rd[p].sources) - 1
              /\ \A i \in 1 .. (Len(rd[p].sources) - 1) :
                     rd'[p].sources[i].number = rd[p].sources[i + 1].number]_vars

\* C35: with no seek and no pause after play(), every end event is that of
\* the current fragment, so that the fragments end one by one in ascending
\* order, and onFinish is raised by the end event of the last fragment, every
\* fragment having been loaded and pushed, in ascending order.
C35_FinishAfterEveryFragment ==
    /\ [](\A p \in Managed :
             (ev.op = "end" /\ ev.p = p /\ Emitted("onFinish")) =>
                 /\ ev.n = FragmentsLength(rd[p]) - 1
                 /\ AllLoaded(rd[p])
                 /\ rd[p].loads = EmptyBag
                 /\ rd[p].lastPush = FragmentsLength(rd[p]) - 1
                 /\ ~rd[p].descending)
    /\ [][\A p \in Managed :
             (ev'.op = "end" /\ ev'.p = p) => rd[p].currentFragmentNumber = ev'.n]_vars

\* C36: while the queue stays Paused and no seek takes effect, elapsed() and
\* getCurrentTime() return the same value whatever the clock shows and
\* whatever is pushed into the queue.
C36_PausedElapsedIsCached ==
    [][\A p \in Managed :
          (/\ rd[p].state = STATE_PAUSED
           /\ rd'[p].state = STATE_PAUSED
           /\ rd'[p].seeksDone = rd[p].seeksDone) =>
              /\ QueueElapsed(rd'[p], now') = QueueElapsed(rd[p], now)
              /\ GetCurrentTime(rd'[p], now') = GetCurrentTime(rd[p], now)]_vars

\* C37: every seek that takes effect is eventually followed by buffering being
\* false, whatever the time requested.
C37_SeekEndsBuffering ==
    \A p \in Players :
        (SeekRan /\ ev.p = p /\ Emitted("seek")) ~> ~rd[p].buffering

\* C38: no two sessions in the manager's list have the same id, and the id a
\* session got from add() never changes.
C38_IdsUniqueAndStable ==
    /\ [](\A i, j \in 1 .. Len(players) :
             i # j => rd[players[i]].id # rd[players[j]].id)
    /\ [][\A p \in Players :
             rd[p].id # Undefined => rd'[p].id = rd[p].id]_vars

\* C39: the whilePlaying timer of a session is armed exactly while its queue is
\* Playing, play() arms it only when none is armed, and none is armed once the
\* session is destroyed.
C39_PlayingTimerIffPlaying ==
    /\ [](\A p \in Created :
             /\ ~rd[p].destroyed =>
                    (rd[p].playingInterval <=> rd[p].state = STATE_PLAYING)
             /\ rd[p].destroyed => ~rd[p].playingInterval)
    /\ [][\A p \in Created :
             (ev'.op = "play" /\ ev'.p = p /\ rd'[p].state = STATE_PLAYING
                 /\ rd[p].state # STATE_PLAYING) => ~rd[p].playingInterval]_vars

\* C40: while a session plays with no seek and no pause, getCurrentTime() is the
\* same immediately after an end-event handler as immediately before it, the
\* handler of the final fragment included, and after onFinish it is at most the
\* track duration plus the grace period.
C40_NoJumpAcrossEnd ==
    /\ [][\A p \in Managed :
             (/\ ev'.op = "end" /\ ev'.p = p
              /\ rd[p].state = STATE_PLAYING
              /\ rd[p].seeksDone = 0
              /\ rd[p].sources[1].number = ev'.n
              /\ \/ ev'.n = FragmentsLength(rd[p]) - 1
                 \/ /\ Len(rd[p].sources) >= 2
                    /\ rd[p].sources[2].number = ev'.n + 1) =>
                 GetCurrentTime(rd'[p], now') = GetCurrentTime(rd[p], now)]_vars
    /\ [](\A p \in Managed :
             (rd[p].state = STATE_FINISHED /\ rd[p].seeksDone = 0) =>
                 GetCurrentTime(rd[p], now) <=
                     (FragmentsLength(rd[p]) - 1) * FRAGMENT_DURATION
                       + BufferDuration(FragmentsLength(rd[p]) - 1) + EndGrace)

====
